---- MODULE Spec2Model ----
(***************************************************************************)
(* Model of src/models/components.py: the forward computations of          *)
(* ContextWindow, Concatenate, TimeDistributed, CNNEncoder and             *)
(* BiLSTMEmbedder.  Tensors are nested sequences (1-based); every forward  *)
(* call is one action taking the module from "called" to "returned" or     *)
(* "failed".  Each component has its own specification, whose Init draws    *)
(* the module's parameters and the call's inputs from bounded sets.        *)
(***************************************************************************)
EXTENDS Integers, Sequences, FiniteSets

VARIABLES contextWindow, concatenate, timeDistributed, cnnEncoder, biLSTMEmbedder

vars == <<contextWindow, concatenate, timeDistributed, cnnEncoder, biLSTMEmbedder>>

\* A module that is not under study in the specification at hand.
Idle == [pc |-> "idle"]

(***************************************************************************)
(* Bounds                                                                  *)
(***************************************************************************)
\* Largest number of scalar cells of an input tensor.
MaxCells == 6
\* Largest window of a ContextWindow.
MaxWindow == 2

\* Scalar values of float tensors.
Values == {0, 1}

(***************************************************************************)
(* Tensor helpers                                                          *)
(***************************************************************************)
\* Shapes (b, t, f), every axis non-empty, of at most MaxCells cells.
Shapes3 ==
    {s \in (1..MaxCells) \X (1..MaxCells) \X (1..MaxCells) :
        s[1] * s[2] * s[3] <= MaxCells}

\* All rank-3 tensors of shape s over the values V.
Tensors3(s, V) == [1..s[1] -> [1..s[2] -> [1..s[3] -> V]]]

\* All rank-3 input tensors.
AllTensors3 == UNION {Tensors3(s, Values) : s \in Shapes3}

RECURSIVE Flatten(_)
\* contiguous().view(batch_size, -1) on one batch row: the frames of the row
\* laid out one after the other.
Flatten(frames) ==
    IF frames = <<>> THEN <<>> ELSE Head(frames) \o Flatten(Tail(frames))

(***************************************************************************)
(* ContextWindow                                                           *)
(***************************************************************************)
\* _get_padding_for: a zero tensor of shape (x.size(0), window, x.size(2)).
GetPaddingFor(x, window) ==
    [b \in 1..Len(x) |-> [t \in 1..window |-> [c \in 1..Len(x[1][1]) |-> 0]]]

\* torch.cat(inputs, dim=1) of two rank-3 tensors.
CatDim1(x, y) == [b \in 1..Len(x) |-> x[b] \o y[b]]

\* Faulty variant of Pad: the padding always goes in front.
PadAlwaysFirst(x, window, pad_first) == CatDim1(GetPaddingFor(x, window), x)

\* _pad: the padding before x (pad_first) or after it.
Pad(x, window, pad_first) ==
    IF pad_first THEN CatDim1(GetPaddingFor(x, window), x)
                 ELSE CatDim1(x, GetPaddingFor(x, window))

\* inputs[:, lo:hi, :].contiguous().view(batch_size, -1), lo and hi 0-based.
SliceView(padded, lo, hi) ==
    [b \in 1..Len(padded) |-> Flatten(SubSeq(padded[b], lo + 1, hi))]

\* torch.stack(temps, dim=1): outputs[b][i] = temps[i][b].
StackDim1(temps, batch_size) ==
    [b \in 1..batch_size |-> [i \in 1..Len(temps) |-> temps[i][b]]]

\* ContextWindow.forward on a rank-3 tensor.
ContextWindowOutputs(window, inputs) ==
    IF window = 0 THEN inputs
    ELSE LET batch_size == Len(inputs)
             seq_length == Len(inputs[1])
             padded == Pad(Pad(inputs, window, TRUE), window, FALSE)
             temps == [k \in 1..seq_length |->
                          SliceView(padded, k - 1, (k - 1) + 2 * window + 1)]
         IN  StackDim1(temps, batch_size)

InitContextWindow ==
    /\ contextWindow \in
          {[pc |-> "called", window |-> w, inputs |-> x, outputs |-> <<>>] :
              w \in 0..MaxWindow, x \in AllTensors3}
    /\ concatenate = Idle
    /\ timeDistributed = Idle
    /\ cnnEncoder = Idle
    /\ biLSTMEmbedder = Idle

ContextWindowForward ==
    /\ contextWindow.pc = "called"
    /\ contextWindow' =
          [contextWindow EXCEPT
              !.pc = "returned",
              !.outputs = ContextWindowOutputs(contextWindow.window,
                                               contextWindow.inputs)]
    /\ UNCHANGED <<concatenate, timeDistributed, cnnEncoder, biLSTMEmbedder>>

SpecContextWindow == InitContextWindow /\ [][ContextWindowForward]_vars

\* C1: for every window w >= 0 and rank-3 input of shape (batch, L, F) the
\* output has shape (batch, L, (2w+1)*F), and its row (b, i) is the in-order
\* concatenation of the frames i-w .. i+w, a frame outside 1..L being all
\* zeros; for w = 0 the output is the input.
C1_ContextWindowFrames ==
    contextWindow.pc = "returned" =>
        LET w == contextWindow.window
            x == contextWindow.inputs
            y == contextWindow.outputs
            L == Len(x[1])
            F == Len(x[1][1])
        IN  /\ Len(y) = Len(x)
            /\ \A b \in 1..Len(x) :
                  /\ Len(y[b]) = L
                  /\ \A i \in 1..L :
                        /\ Len(y[b][i]) = (2 * w + 1) * F
                        /\ \A k \in (0 - w)..w : \A c \in 1..F :
                              y[b][i][(k + w) * F + c] =
                                 IF i + k >= 1 /\ i + k <= L
                                 THEN x[b][i + k][c] ELSE 0
            /\ (w = 0 => y = x)

\* A returned call with a window of 1 on a sequence that has an interior
\* position (full window inside the sequence), edge positions, two features
\* per frame, and whose first and last frames are not zero frames.
C1_Witness ==
    /\ contextWindow.pc = "returned"
    /\ contextWindow.window = 1
    /\ Len(contextWindow.inputs[1]) = 3
    /\ Len(contextWindow.inputs[1][1]) = 2
    /\ contextWindow.inputs[1][1] = <<1, 0>>
    /\ contextWindow.inputs[1][3] = <<0, 1>>
    /\ contextWindow.outputs[1][2] = <<1, 0>> \o contextWindow.inputs[1][2] \o <<0, 1>>

(***************************************************************************)
(* Wrapped modules                                                         *)
(*                                                                         *)
(* Concatenate and TimeDistributed are given their sub-modules by the      *)
(* caller.  A sub-module maps a rank-2 tensor (rows x features) to a       *)
(* rank-2 tensor; the kinds below are the ones the model wraps.            *)
(***************************************************************************)
RECURSIVE SumSeq(_)
SumSeq(s) == IF s = <<>> THEN 0 ELSE Head(s) + SumSeq(Tail(s))

\* The sub-module `m` called on the rows `x`:
\*   identity   every row unchanged
\*   sum        every row reduced to one feature, the sum of its features
\*   double     every row followed by a copy of itself
\*   reverse    the rows in reverse order (not row-wise, keeps the row count)
\*   drop_last  all rows but the last (does not keep the row count)
ModuleCall(m, x) ==
    CASE m = "identity"  -> x
      [] m = "sum"       -> [k \in 1..Len(x) |-> <<SumSeq(x[k])>>]
      [] m = "double"    -> [k \in 1..Len(x) |-> x[k] \o x[k]]
      [] m = "reverse"   -> [k \in 1..Len(x) |-> x[Len(x) + 1 - k]]
      [] m = "drop_last" -> SubSeq(x, 1, Len(x) - 1)

(***************************************************************************)
(* Concatenate                                                             *)
(***************************************************************************)
\* Largest number of sub-modules, and of inputs, of a Concatenate.
MaxModules == 2

\* Sub-modules a Concatenate holds.
ConcatenateModules == {"identity", "sum", "double"}

\* Shapes (rows, features) of the inputs handed to a Concatenate.
ConcatenateShapes == {<<1, 1>>, <<1, 2>>, <<2, 1>>}

ConcatenateTensors ==
    UNION {[1..s[1] -> [1..s[2] -> Values]] : s \in ConcatenateShapes}

\* All sequences over S of length 0..n.
SeqsUpTo(S, n) == UNION {[1..k -> S] : k \in 0..n}

\* Faulty variant of LengthsMatch: the assertion is missing.
LengthsUnchecked(inputs, modules) == TRUE

\* assert len(inputs) == len(self.__modules)
LengthsMatch(inputs, modules) == Len(inputs) = Len(modules)

Min(a, b) == IF a <= b THEN a ELSE b

\* [m(i) for m, i in zip(self.__modules, inputs)]: zip stops at the shorter list.
ZipApply(modules, inputs) ==
    [k \in 1..Min(Len(modules), Len(inputs)) |-> ModuleCall(modules[k], inputs[k])]

\* torch.cat accepts a non-empty list of tensors that agree on every axis but
\* the one it concatenates along.
CatAccepts(res) ==
    /\ Len(res) >= 1
    /\ \A k \in 1..Len(res) : Len(res[k]) = Len(res[1])

RECURSIVE CatRow(_, _)
\* Row r of torch.cat(res, dim=-1): row r of every tensor, in list order.
CatRow(res, r) ==
    IF res = <<>> THEN <<>> ELSE Head(res)[r] \o CatRow(Tail(res), r)

\* Faulty variant of CatLast: the results are concatenated in reverse list order.
CatLastReversed(res) ==
    [r \in 1..Len(res[1]) |->
        CatRow([k \in 1..Len(res) |-> res[Len(res) + 1 - k]], r)]

\* torch.cat(res, dim=-1) of rank-2 tensors.
CatLast(res) == [r \in 1..Len(res[1]) |-> CatRow(res, r)]

InitConcatenate ==
    /\ concatenate \in
          {[pc |-> "called", modules |-> ms, inputs |-> xs, applied |-> <<>>,
            outputs |-> <<>>, error |-> "none"] :
              ms \in SeqsUpTo(ConcatenateModules, MaxModules),
              xs \in SeqsUpTo(ConcatenateTensors, MaxModules)}
    /\ contextWindow = Idle
    /\ timeDistributed = Idle
    /\ cnnEncoder = Idle
    /\ biLSTMEmbedder = Idle

\* Concatenate.forward.  `applied` lists the positions k at which a sub-module
\* was called on an input.
ConcatenateForward ==
    /\ concatenate.pc = "called"
    /\ LET modules == concatenate.modules
           inputs == concatenate.inputs
           res == ZipApply(modules, inputs)
       IN  \/ /\ ~LengthsMatch(inputs, modules)
              /\ concatenate' = [concatenate EXCEPT
                                    !.pc = "failed", !.error = "AssertionError"]
           \/ /\ LengthsMatch(inputs, modules)
              /\ ~CatAccepts(res)
              /\ concatenate' = [concatenate EXCEPT
                                    !.pc = "failed", !.error = "RuntimeError",
                                    !.applied = [k \in 1..Len(res) |-> k]]
           \/ /\ LengthsMatch(inputs, modules)
              /\ CatAccepts(res)
              /\ concatenate' = [concatenate EXCEPT
                                    !.pc = "returned",
                                    !.applied = [k \in 1..Len(res) |-> k],
                                    !.outputs = CatLast(res)]
    /\ UNCHANGED <<contextWindow, timeDistributed, cnnEncoder, biLSTMEmbedder>>

SpecConcatenate == InitConcatenate /\ [][ConcatenateForward]_vars

\* Feature size of sub-module k's result.
FeatureSize(k) ==
    Len(ModuleCall(concatenate.modules[k], concatenate.inputs[k])[1])

RECURSIVE FeatureSizesBefore(_)
\* Sum of the feature sizes of the results of sub-modules 1..k.
FeatureSizesBefore(k) ==
    IF k = 0 THEN 0 ELSE FeatureSize(k) + FeatureSizesBefore(k - 1)

\* The call applied sub-module k to input k for every k and returned the
\* results concatenated in list order along the last axis.
ConcatenatedInOrder ==
    LET n == Len(concatenate.modules)
        y == concatenate.outputs
    IN  /\ concatenate.pc = "returned"
        /\ concatenate.applied = [k \in 1..n |-> k]
        /\ Len(y) = Len(concatenate.inputs[1])
        /\ \A r \in 1..Len(y) :
              /\ Len(y[r]) = FeatureSizesBefore(n)
              /\ \A k \in 1..n : \A c \in 1..FeatureSize(k) :
                    y[r][FeatureSizesBefore(k - 1) + c] =
                       ModuleCall(concatenate.modules[k],
                                  concatenate.inputs[k])[r][c]

\* C7 as stated: whenever the list of inputs has the same length as the list
\* of sub-modules, forward returns the results of sub-module k on input k
\* concatenated in list order, the feature axis having the sum of the sizes.
C7_AsStated ==
    (concatenate.pc \in {"returned", "failed"}
        /\ Len(concatenate.inputs) = Len(concatenate.modules))
    => ConcatenatedInOrder

\* C7 (amended): the same, when moreover the lists are not empty and the
\* sub-modules' results agree on the row axis.
C7_ConcatenateInOrder ==
    (concatenate.pc \in {"returned", "failed"}
        /\ Len(concatenate.inputs) = Len(concatenate.modules)
        /\ Len(concatenate.modules) >= 1
        /\ \A k \in 1..Len(concatenate.inputs) :
              Len(concatenate.inputs[k]) = Len(concatenate.inputs[1]))
    => ConcatenatedInOrder

\* A returned call on two inputs of different feature sizes through two
\* different sub-modules, the output being 1 + 2 features wide.
C7_Witness ==
    /\ concatenate.pc = "returned"
    /\ concatenate.modules = <<"sum", "identity">>
    /\ concatenate.inputs = <<(<< <<1, 1>> >>), (<< <<0, 1>> >>)>>
    /\ concatenate.outputs = << <<2, 0, 1>> >>

\* C9: when the number of inputs differs from the number of sub-modules the
\* call fails on its assertion, no sub-module has been applied and there is
\* no output.
C9_LengthMismatchFails ==
    (concatenate.pc \in {"returned", "failed"}
        /\ Len(concatenate.inputs) # Len(concatenate.modules))
    => /\ concatenate.pc = "failed"
       /\ concatenate.error = "AssertionError"
       /\ concatenate.applied = <<>>
       /\ concatenate.outputs = <<>>

\* A failed call with two inputs for one sub-module.
C9_Witness ==
    /\ concatenate.pc = "failed"
    /\ concatenate.error = "AssertionError"
    /\ Len(concatenate.inputs) = 2
    /\ Len(concatenate.modules) = 1

(***************************************************************************)
(* TimeDistributed                                                         *)
(***************************************************************************)
\* Modules a TimeDistributed wraps.
TimeDistributedModules == {"identity", "sum", "double", "reverse", "drop_last"}

\* The row-major storage of a rank-3 tensor: all scalars, the last axis
\* running fastest.
Storage3(x) == Flatten(Flatten(x))

\* The row-major storage of a rank-2 tensor.
Storage2(x) == Flatten(x)

\* view(n, r) of a storage of n * r scalars: row k is scalars (k-1)r+1 .. kr.
ViewRows(storage, n, r) ==
    [k \in 1..n |-> SubSeq(storage, (k - 1) * r + 1, k * r)]

\* Faulty variant of ViewBatchTime: batch and time axes are exchanged.
ViewTimeBatch(storage, b, t, r) ==
    [i \in 1..b |-> [j \in 1..t |->
        SubSeq(storage, ((j - 1) * b + (i - 1)) * r + 1,
                        ((j - 1) * b + (i - 1)) * r + r)]]

\* view(b, t, r) of a storage of b * t * r scalars.
ViewBatchTime(storage, b, t, r) ==
    [i \in 1..b |-> [j \in 1..t |->
        SubSeq(storage, ((i - 1) * t + (j - 1)) * r + 1,
                        ((i - 1) * t + (j - 1)) * r + r)]]

InitTimeDistributed ==
    /\ timeDistributed \in
          {[pc |-> "called", module |-> m, inputs |-> x, outputs |-> <<>>,
            error |-> "none"] :
              m \in TimeDistributedModules, x \in AllTensors3}
    /\ contextWindow = Idle
    /\ concatenate = Idle
    /\ cnnEncoder = Idle
    /\ biLSTMEmbedder = Idle

\* TimeDistributed.forward on a rank-3 tensor.
TimeDistributedForward ==
    /\ timeDistributed.pc = "called"
    /\ LET inputs == timeDistributed.inputs
           b == Len(inputs)
           t == Len(inputs[1])
           flat == ViewRows(Storage3(inputs), b * t, Len(inputs[1][1]))
           outputs == ModuleCall(timeDistributed.module, flat)
       IN  \/ /\ Len(outputs) # b * t
              /\ timeDistributed' = [timeDistributed EXCEPT
                                        !.pc = "failed",
                                        !.error = "AssertionError"]
           \/ /\ Len(outputs) = b * t
              /\ timeDistributed' =
                    [timeDistributed EXCEPT
                        !.pc = "returned",
                        !.outputs = ViewBatchTime(Storage2(outputs), b, t,
                                                  Len(outputs[1]))]
    /\ UNCHANGED <<contextWindow, concatenate, cnnEncoder, biLSTMEmbedder>>

SpecTimeDistributed == InitTimeDistributed /\ [][TimeDistributedForward]_vars

\* Row k (1-based) of the flattened input: the entry at batch (k-1) div t,
\* time (k-1) mod t.
FlattenedInput ==
    LET x == timeDistributed.inputs
        t == Len(x[1])
    IN  [k \in 1..(Len(x) * t) |-> x[((k - 1) \div t) + 1][((k - 1) % t) + 1]]

MaxInputSize == 2
MaxFilters == 2
MaxFilterWidth == 2

\* Settings of the convolution's learned parameters.
ConvSeeds == {0, 1}

\* nn.Conv2d(1, num_filters, (filter_width, input_size), padding=padding):
\* weight of shape (num_filters, 1, filter_width, input_size), bias of shape
\* (num_filters), with entries in -1..1.
NewConv2d(seed, num_filters, kernel_h, kernel_w, padding) ==
    [weight |-> [f \in 1..num_filters |-> <<[dh \in 1..kernel_h |->
                    [dw \in 1..kernel_w |-> ((seed + f + 2 * dh + dw) % 3) - 1]]>>],
     bias |-> [f \in 1..num_filters |-> (seed + f) % 2],
     kernel_size |-> <<kernel_h, kernel_w>>,
     padding |-> padding]

\* Faulty variant of ConvPadding: no padding on the time axis.
ConvNoPadding(filter_width) == <<0, 0>>

\* padding = (filter_width - 1, 0)
ConvPadding(filter_width) == <<filter_width - 1, 0>>

\* Size of a convolution's output axis (stride 1): input n, kernel k, padding
\* p on both sides.
ConvOutSize(n, k, p) == n + 2 * p - k + 1

\* The (h, w) plane `plane` with p[1] zero rows before and after it and p[2]
\* zero columns before and after every row.
ZeroPad2d(plane, p) ==
    LET W == Len(plane[1])
        zcols == [c \in 1..p[2] |-> 0]
        zrow == [c \in 1..(W + 2 * p[2]) |-> 0]
        zrows == [r \in 1..p[1] |-> zrow]
    IN  zrows \o [h \in 1..Len(plane) |-> zcols \o plane[h] \o zcols] \o zrows

\* inputs.unsqueeze(1): (batch, seq, size) to (batch, 1, seq, size).
Unsqueeze1(x) == [b \in 1..Len(x) |-> <<x[b]>>]

\* self.conv(inputs) on a (batch, 1, H, W) tensor: (batch, num_filters, H', W').
Conv2d(conv, x) ==
    LET kh == conv.kernel_size[1]
        kw == conv.kernel_size[2]
        Hout == ConvOutSize(Len(x[1][1]), kh, conv.padding[1])
        Wout == ConvOutSize(Len(x[1][1][1]), kw, conv.padding[2])
    IN  [b \in 1..Len(x) |->
           LET padded == ZeroPad2d(x[b][1], conv.padding)
           IN  [f \in 1..Len(conv.weight) |->
                  [h \in 1..Hout |-> [w \in 1..Wout |->
                      conv.bias[f] +
                      SumSeq([dh \in 1..kh |-> SumSeq([dw \in 1..kw |->
                          conv.weight[f][1][dh][dw]
                             * padded[h + dh - 1][w + dw - 1]])])]]]]

\* convolved.squeeze(-1) of a tensor whose last axis has size 1.
SqueezeLast(x) ==
    [b \in 1..Len(x) |-> [f \in 1..Len(x[b]) |->
        [h \in 1..Len(x[b][f]) |-> x[b][f][h][1]]]]

RECURSIVE MaxSeq(_)
\* The largest element of a non-empty sequence.
MaxSeq(s) ==
    IF Len(s) = 1 THEN s[1]
    ELSE LET m == MaxSeq(Tail(s)) IN IF Head(s) >= m THEN Head(s) ELSE m

\* convolved.max(dim=-1): the maximum over the last axis.
MaxLast(x) == [b \in 1..Len(x) |-> [f \in 1..Len(x[b]) |-> MaxSeq(x[b][f])]]

InitCNNEncoder ==
    /\ cnnEncoder \in
          {[pc |-> "called", input_size |-> n,
            conv |-> NewConv2d(seed, nf, fw, n, ConvPadding(fw)),
            inputs |-> x, convolved |-> <<>>, outputs |-> <<>>,
            error |-> "none"] :
              n \in 1..MaxInputSize, nf \in 1..MaxFilters,
              fw \in 1..MaxFilterWidth, seed \in ConvSeeds, x \in AllTensors3}
    /\ contextWindow = Idle
    /\ concatenate = Idle
    /\ timeDistributed = Idle
    /\ biLSTMEmbedder = Idle

\* CNNEncoder.forward on a rank-3 tensor.  The convolution raises an error
\* when an axis of its output would be empty.
CNNEncoderForward ==
    /\ cnnEncoder.pc = "called"
    /\ LET inputs == cnnEncoder.inputs
           conv == cnnEncoder.conv
           Hout == ConvOutSize(Len(inputs[1]), conv.kernel_size[1], conv.padding[1])
           Wout == ConvOutSize(Len(inputs[1][1]), conv.kernel_size[2], conv.padding[2])
           convolved == Conv2d(conv, Unsqueeze1(inputs))
       IN  \/ /\ Len(inputs[1][1]) # cnnEncoder.input_size
              /\ cnnEncoder' = [cnnEncoder EXCEPT
                                   !.pc = "failed", !.error = "AssertionError"]
           \/ /\ Len(inputs[1][1]) = cnnEncoder.input_size
              /\ cnnEncoder' =
                    IF Hout < 1 \/ Wout < 1
                    THEN [cnnEncoder EXCEPT !.pc = "failed", !.error = "RuntimeError"]
                    ELSE IF Wout # 1
                    THEN [cnnEncoder EXCEPT !.pc = "failed", !.error = "AssertionError",
                                            !.convolved = convolved]
                    ELSE [cnnEncoder EXCEPT
                             !.pc = "returned",
                             !.convolved = convolved,
                             !.outputs = MaxLast(SqueezeLast(convolved))]
    /\ UNCHANGED <<contextWindow, concatenate, timeDistributed, biLSTMEmbedder>>

SpecCNNEncoder == InitCNNEncoder /\ [][CNNEncoderForward]_vars

\* The input feature c of time step t of batch row b, zero outside the sequence.
CNNInputOrZero(b, t, c) ==
    IF t >= 1 /\ t <= Len(cnnEncoder.inputs[b])
    THEN cnnEncoder.inputs[b][t][c] ELSE 0

\* Filter f's activation at window position h of batch row b: the window
\* covers the time steps h - filter_width + 1 .. h.
Activation(b, f, h) ==
    LET conv == cnnEncoder.conv
        fw == conv.kernel_size[1]
    IN  conv.bias[f] +
        SumSeq([dh \in 1..fw |-> SumSeq([c \in 1..cnnEncoder.input_size |->
            conv.weight[f][1][dh][c] * CNNInputOrZero(b, h - fw + dh, c)])])

\* C8: on an input of shape (batch, L, input_size), L >= 1, filter_width >= 1,
\* the call returns a tensor of shape (batch, num_filters); the convolution
\* yields (batch, num_filters, L', 1) with L' >= 1, and every output entry is
\* the maximum of its filter's activation over the L' window positions.
C8_CNNEncoderMaxPool ==
    (cnnEncoder.pc \in {"returned", "failed"}
        /\ Len(cnnEncoder.inputs[1][1]) = cnnEncoder.input_size)
    => LET x == cnnEncoder.inputs
           y == cnnEncoder.outputs
           cv == cnnEncoder.convolved
           nf == Len(cnnEncoder.conv.weight)
           Lp == Len(x[1]) + cnnEncoder.conv.kernel_size[1] - 1
       IN  /\ cnnEncoder.pc = "returned"
           /\ Lp >= 1
           /\ Len(y) = Len(x)
           /\ Len(cv) = Len(x)
           /\ \A b \in 1..Len(x) :
                 /\ Len(y[b]) = nf
                 /\ Len(cv[b]) = nf
                 /\ \A f \in 1..nf :
                       /\ Len(cv[b][f]) = Lp
                       /\ \A h \in 1..Lp :
                             /\ Len(cv[b][f][h]) = 1
                             /\ cv[b][f][h][1] = Activation(b, f, h)
                             /\ y[b][f] >= Activation(b, f, h)
                       /\ \E h \in 1..Lp : y[b][f] = Activation(b, f, h)

\* A returned call with a filter wider than the one-step sequence, two filters,
\* and an output entry above the activation of some window position.
C8_Witness ==
    /\ cnnEncoder.pc = "returned"
    /\ Len(cnnEncoder.inputs[1]) = 1
    /\ cnnEncoder.conv.kernel_size[1] = 2
    /\ Len(cnnEncoder.outputs[1]) = 2
    /\ \E f \in 1..2 : \E h \in 1..2 :
          cnnEncoder.outputs[1][f] > cnnEncoder.convolved[1][f][h][1]

(***************************************************************************)
(* BiLSTMEmbedder                                                          *)
(***************************************************************************)
\* Largest batch size of a BiLSTMEmbedder call.
MaxBatch == 3

\* Token ids.
Tokens == {0, 1, 2}

\* The settings of the module: padding_idx (0 by default) and hidden_size.
BiLSTMSettings ==
    {[padding_idx |-> 0, hidden_size |-> 2], [padding_idx |-> 1, hidden_size |-> 1]}

\* The trailing shape of each input channel: <<>> for a rank-2 channel
\* (batch, time), <<n>> for a rank-3 channel (batch, time, n).
InputLayouts == {<< <<>> >>, << <<>>, <<2>> >>}

\* Number of ids a channel of trailing shape r holds per time step.
ChannelWidth(r) == IF r = <<>> THEN 1 ELSE r[1]

RECURSIVE LayoutWidth(_)
LayoutWidth(layout) ==
    IF layout = <<>> THEN 0
    ELSE ChannelWidth(Head(layout)) + LayoutWidth(Tail(layout))

\* The channels of trailing shapes `layout` holding, per time step, the ids
\* of `raw` (batch, time, LayoutWidth(layout)) from left to right.
Channels(raw, layout) ==
    [k \in 1..Len(layout) |->
        LET off == LayoutWidth(SubSeq(layout, 1, k - 1))
        IN  [dim |-> 2 + Len(layout[k]),
             data |-> [b \in 1..Len(raw) |-> [t \in 1..Len(raw[b]) |->
                          IF layout[k] = <<>> THEN raw[b][t][off + 1]
                          ELSE SubSeq(raw[b][t], off + 1, off + layout[k][1])]]]]

\* All input lists of a BiLSTMEmbedder call.
BiLSTMInputs ==
    UNION {{Channels(raw, layout) :
               raw \in UNION {Tensors3(<<s[1], s[2], LayoutWidth(layout)>>, Tokens) :
                                 s \in {q \in Shapes3 : /\ q[3] = LayoutWidth(layout)
                                                        /\ q[1] <= MaxBatch}}} :
           layout \in InputLayouts}

\* self.embedder(inputs): the embedder is given by the caller; this one embeds
\* a time step as the one-feature vector 1 + the sum of its ids.
Embedder(inputs) ==
    [b \in 1..Len(inputs[1].data) |-> [t \in 1..Len(inputs[1].data[b]) |->
        <<1 + SumSeq([k \in 1..Len(inputs) |->
                 IF inputs[k].dim = 2 THEN inputs[k].data[b][t]
                 ELSE SumSeq(inputs[k].data[b][t])])>>]]

\* torch.cat([i.unsqueeze(-1) if i.dim() == 2 else i for i in inputs], dim=-1)
CatChannels(inputs) ==
    [b \in 1..Len(inputs[1].data) |-> [t \in 1..Len(inputs[1].data[b]) |->
        Flatten([k \in 1..Len(inputs) |->
                    IF inputs[k].dim = 2 THEN <<inputs[k].data[b][t]>>
                    ELSE inputs[k].data[b][t]])]]

\* mask = torch.sum((cat != self.padding_idx).long(), dim=-1) != 0
Mask(cat, padding_idx) ==
    [b \in 1..Len(cat) |-> [t \in 1..Len(cat[b]) |->
        SumSeq([c \in 1..Len(cat[b][t]) |->
                   IF cat[b][t][c] # padding_idx THEN 1 ELSE 0]) # 0]]

\* Faulty variant of SeqLengths: the position of the last real step.
LastRealStep(mask) ==
    [b \in 1..Len(mask) |->
        IF \E t \in 1..Len(mask[b]) : mask[b][t]
        THEN CHOOSE t \in 1..Len(mask[b]) :
                 mask[b][t] /\ \A u \in (t + 1)..Len(mask[b]) : ~mask[b][u]
        ELSE 0]

\* seq_lengths = torch.sum(mask.long(), dim=1)
SeqLengths(mask) ==
    [b \in 1..Len(mask) |->
        SumSeq([t \in 1..Len(mask[b]) |-> IF mask[b][t] THEN 1 ELSE 0])]

\* The permutations of 1..n.
Permutations(n) ==
    {p \in [1..n -> 1..n] : \A i, j \in 1..n : p[i] = p[j] => i = j}

\* x[perm]: row i of the result is row perm[i] of x.
IndexRows(x, perm) == [i \in 1..Len(perm) |-> x[perm[i]]]

\* The index results v.sort(0, descending) may return: every permutation that
\* puts v in the asked order (the order of equal elements is not specified).
SortIndices(v, descending) ==
    {p \in Permutations(Len(v)) :
        \A i \in 1..(Len(v) - 1) :
            IF descending THEN v[p[i]] >= v[p[i + 1]] ELSE v[p[i]] <= v[p[i + 1]]}

\* Faulty variant of OriginalPerm: sent_perm sorted in descending order.
OriginalPermDescending(sent_perm) ==
    CHOOSE p \in SortIndices(sent_perm, TRUE) : TRUE

\* _, original_perm = sent_perm.sort(0, descending=False)
OriginalPerm(sent_perm) ==
    CHOOSE p \in SortIndices(sent_perm, FALSE) : TRUE

\* Faulty variant of SortedEmbedded: the batch is left in its original order.
UnsortedEmbedded(embedded, sent_perm) == embedded

\* embedded = embedded[sent_perm]
SortedEmbedded(embedded, sent_perm) == IndexRows(embedded, sent_perm)

\* Faulty variant of RestoredOutputs: the batch is left in sorted order.
UnrestoredOutputs(lstm_out, original_perm) == lstm_out

\* outputs = lstm_out[original_perm]
RestoredOutputs(lstm_out, original_perm) == IndexRows(lstm_out, original_perm)

\* num_layers of the nn.LSTM.
NumLayers == 2

\* A zero vector of n features.
Zeros(n) == [j \in 1..n |-> 0]

\* pack_padded_sequence(embedded, lengths, batch_first=True) accepts lengths
\* that are in decreasing order and all above 0.
PackAccepts(lengths) ==
    /\ \A i \in 1..(Len(lengths) - 1) : lengths[i] >= lengths[i + 1]
    /\ \A i \in 1..Len(lengths) : lengths[i] > 0

\* pack_padded_sequence: batch_sizes[t] is the number of rows longer than
\* t - 1 steps, data holds step t of the first batch_sizes[t] rows, for
\* t = 1, 2, ... up to the longest length.
PackPaddedSequence(x, lengths) ==
    LET batch_sizes == [t \in 1..lengths[1] |->
                           Cardinality({b \in 1..Len(lengths) : lengths[b] >= t})]
    IN  [data |-> Flatten([t \in 1..lengths[1] |->
                              [b \in 1..batch_sizes[t] |-> x[b][t]]]),
         batch_sizes |-> batch_sizes]

\* Position in a packed sequence's data of step t of row b.
PackedIndex(packed, b, t) == SumSeq(SubSeq(packed.batch_sizes, 1, t - 1)) + b

\* The steps of row b held by a packed sequence.
PackedRow(packed, b) ==
    [t \in 1..Cardinality({u \in 1..Len(packed.batch_sizes) :
                              packed.batch_sizes[u] >= b}) |->
        packed.data[PackedIndex(packed, b, t)]]

\* One step of a recurrent cell of direction dir (0 forward, 1 backward):
\* the new hidden vector from the previous one and the step's input.  The
\* model's cell has hidden values in 1..3.
Cell(dir, h, x) ==
    LET s == 2 * SumSeq(h) + SumSeq(x) + dir
    IN  [j \in 1..Len(h) |-> ((s + j) % 3) + 1] \o <<>>   \* (as a tuple)

RECURSIVE ForwardStates(_, _)
\* The forward direction's hidden vectors after steps 1..t of x, t = 1..Len(x).
ForwardStates(x, hidden_size) ==
    IF x = <<>> THEN <<>>
    ELSE LET before == ForwardStates(SubSeq(x, 1, Len(x) - 1), hidden_size)
             h == IF before = <<>> THEN Zeros(hidden_size)
                  ELSE before[Len(before)]
         IN  Append(before, Cell(0, h, x[Len(x)]))

RECURSIVE BackwardStates(_, _)
\* The backward direction's hidden vectors after steps Len(x)..t of x,
\* t = 1..Len(x).
BackwardStates(x, hidden_size) ==
    IF x = <<>> THEN <<>>
    ELSE LET after == BackwardStates(Tail(x), hidden_size)
             h == IF after = <<>> THEN Zeros(hidden_size) ELSE after[1]
         IN  <<Cell(1, h, Head(x))>> \o after

\* One bidirectional layer over a sequence: 2 * hidden_size features a step.
BiLayer(x, hidden_size) ==
    LET f == ForwardStates(x, hidden_size)
        b == BackwardStates(x, hidden_size)
    IN  [t \in 1..Len(x) |-> f[t] \o b[t]] \o <<>>

RECURSIVE LstmLayers(_, _, _)
\* n bidirectional layers, each reading the one below.
LstmLayers(x, hidden_size, n) ==
    IF n = 0 THEN x ELSE LstmLayers(BiLayer(x, hidden_size), hidden_size, n - 1)

\* self.lstm(packed_input): the encoder runs over the steps each row has in
\* the packed sequence and returns its outputs packed the same way.
Lstm(packed, hidden_size) ==
    LET rows == [b \in 1..packed.batch_sizes[1] |->
                    LstmLayers(PackedRow(packed, b), hidden_size, NumLayers)]
    IN  [data |-> Flatten([t \in 1..Len(packed.batch_sizes) |->
                              [b \in 1..packed.batch_sizes[t] |-> rows[b][t]]]),
         batch_sizes |-> packed.batch_sizes]

\* pad_packed_sequence(lstm_out, batch_first=True): a dense tensor with as
\* many time steps as the longest row, zero where a row has no step.
PadPackedSequence(packed) ==
    [b \in 1..packed.batch_sizes[1] |-> [t \in 1..Len(packed.batch_sizes) |->
        IF packed.batch_sizes[t] >= b
        THEN packed.data[PackedIndex(packed, b, t)]
        ELSE Zeros(Len(packed.data[1]))]]

\* The locals of BiLSTMEmbedder.forward up to the sort, `lengths` being
\* seq_lengths before the sort and sent_perm the sort's index result.
BiLSTMSorted(inputs, padding_idx, sent_perm) ==
    LET embedded == Embedder(inputs)
        cat == CatChannels(inputs)
        mask == Mask(cat, padding_idx)
        lengths == SeqLengths(mask)
    IN  [embedded |-> embedded, mask |-> mask, lengths |-> lengths,
         seq_lengths |-> IndexRows(lengths, sent_perm),
         sent_perm |-> sent_perm,
         sorted |-> SortedEmbedded(embedded, sent_perm)]

\* BiLSTMEmbedder.forward, the sort having returned the indices sent_perm:
\* the call's locals, and its result in pc, outputs and error.
BiLSTMForward(inputs, padding_idx, hidden_size, sent_perm) ==
    LET l == BiLSTMSorted(inputs, padding_idx, sent_perm)
        base == [inputs |-> inputs, padding_idx |-> padding_idx,
                 hidden_size |-> hidden_size,
                 embedded |-> l.embedded, mask |-> l.mask, lengths |-> l.lengths,
                 seq_lengths |-> l.seq_lengths, sent_perm |-> l.sent_perm,
                 sorted |-> l.sorted]
    IN  IF ~PackAccepts(l.seq_lengths)
        THEN [pc |-> "failed", error |-> "ValueError", locals |-> base,
              outputs |-> <<>>]
        ELSE LET packed_input == PackPaddedSequence(l.sorted, l.seq_lengths)
                 lstm_out == PadPackedSequence(Lstm(packed_input, hidden_size))
                 original_perm == OriginalPerm(sent_perm)
             IN  [pc |-> "returned", error |-> "none", locals |-> base,
                  packed_input |-> packed_input, lstm_out |-> lstm_out,
                  original_perm |-> original_perm,
                  outputs |-> RestoredOutputs(lstm_out, original_perm)]

\* The index results of seq_lengths.sort(0, descending=True) for `inputs`.
SentPerms(inputs, padding_idx) ==
    SortIndices(SeqLengths(Mask(CatChannels(inputs), padding_idx)), TRUE)

InitBiLSTMEmbedder ==
    /\ biLSTMEmbedder \in
          {[pc |-> "called",
            locals |-> [inputs |-> x, padding_idx |-> c.padding_idx,
                        hidden_size |-> c.hidden_size]] :
              x \in BiLSTMInputs, c \in BiLSTMSettings}
    /\ contextWindow = Idle
    /\ concatenate = Idle
    /\ timeDistributed = Idle
    /\ cnnEncoder = Idle

BiLSTMEmbedderForward ==
    /\ biLSTMEmbedder.pc = "called"
    /\ \E sent_perm \in SentPerms(biLSTMEmbedder.locals.inputs,
                                  biLSTMEmbedder.locals.padding_idx) :
          biLSTMEmbedder' = BiLSTMForward(biLSTMEmbedder.locals.inputs,
                                          biLSTMEmbedder.locals.padding_idx,
                                          biLSTMEmbedder.locals.hidden_size,
                                          sent_perm)
    /\ UNCHANGED <<contextWindow, concatenate, timeDistributed, cnnEncoder>>

SpecBiLSTMEmbedder == InitBiLSTMEmbedder /\ [][BiLSTMEmbedderForward]_vars

\* The input channels with the batch rows reordered: row i is row p[i].
PermuteRows(inputs, p) ==
    [k \in 1..Len(inputs) |->
        [dim |-> inputs[k].dim, data |-> IndexRows(inputs[k].data, p)]]

\* Whether step t of batch row b of the call's inputs is real: some channel
\* differs from padding_idx there.
RealStep(b, t) ==
    LET inputs == biLSTMEmbedder.locals.inputs
        pad == biLSTMEmbedder.locals.padding_idx
    IN  \E k \in 1..Len(inputs) :
           IF inputs[k].dim = 2 THEN inputs[k].data[b][t] # pad
           ELSE \E j \in 1..Len(inputs[k].data[b][t]) :
                   inputs[k].data[b][t][j] # pad

\* Batch size and number of time steps of the call's inputs.
BatchSize == Len(biLSTMEmbedder.locals.inputs[1].data)
TimeSteps == Len(biLSTMEmbedder.locals.inputs[1].data[1])

\* C10: a time step is real exactly when at least one input channel differs
\* from padding_idx there; the length computed for a row is the number of its
\* real steps, wherever they lie, and is between 0 and the sequence length.
C10_LengthsCountRealSteps ==
    biLSTMEmbedder.pc \in {"returned", "failed"} =>
        \A b \in 1..BatchSize :
            /\ \A t \in 1..TimeSteps :
                  biLSTMEmbedder.locals.mask[b][t] <=> RealStep(b, t)
            /\ biLSTMEmbedder.locals.lengths[b] =
                  Cardinality({t \in 1..TimeSteps : RealStep(b, t)})
            /\ biLSTMEmbedder.locals.lengths[b] >= 0
            /\ biLSTMEmbedder.locals.lengths[b] <= TimeSteps

\* A call on a row of three steps whose middle step is padding: two real
\* steps, the last real step being the third.
C10_Witness ==
    /\ biLSTMEmbedder.pc = "returned"
    /\ biLSTMEmbedder.locals.padding_idx = 0
    /\ Len(biLSTMEmbedder.locals.inputs) = 1
    /\ biLSTMEmbedder.locals.inputs[1].data[1] = <<2, 0, 1>>
    /\ biLSTMEmbedder.locals.mask[1] = <<TRUE, FALSE, TRUE>>
    /\ biLSTMEmbedder.locals.lengths[1] = 2

\* C3: sent_perm is a permutation of the batch indices that puts the lengths
\* in non-increasing order, original_perm is its inverse, sorted[i] is
\* original[sent_perm[i]] and original[i] is sorted[original_perm[i]].
C3_PermutationAndInverse ==
    biLSTMEmbedder.pc \in {"returned", "failed"} =>
        LET l == biLSTMEmbedder.locals
        IN  /\ l.sent_perm \in Permutations(BatchSize)
            /\ \A i \in 1..BatchSize :
                  /\ l.seq_lengths[i] = l.lengths[l.sent_perm[i]]
                  /\ l.sorted[i] = l.embedded[l.sent_perm[i]]
                  /\ i < BatchSize => l.seq_lengths[i] >= l.seq_lengths[i + 1]
            /\ biLSTMEmbedder.pc = "returned" =>
                  LET original_perm == biLSTMEmbedder.original_perm
                  IN  /\ original_perm \in Permutations(BatchSize)
                      /\ \A i \in 1..BatchSize :
                            /\ l.sent_perm[original_perm[i]] = i
                            /\ original_perm[l.sent_perm[i]] = i
                            /\ l.sorted[original_perm[i]] = l.embedded[i]
                            /\ l.seq_lengths[original_perm[i]] = l.lengths[i]
                      /\ IndexRows(IndexRows(l.embedded, l.sent_perm),
                                   original_perm) = l.embedded

\* A returned call whose sent_perm is not its own inverse, on rows of
\* different lengths.
C3_Witness ==
    /\ biLSTMEmbedder.pc = "returned"
    /\ biLSTMEmbedder.locals.sent_perm = <<2, 3, 1>>
    /\ biLSTMEmbedder.original_perm = <<3, 1, 2>>
    /\ biLSTMEmbedder.locals.lengths = <<1, 2, 2>>
    /\ biLSTMEmbedder.locals.embedded[2] # biLSTMEmbedder.locals.embedded[3]

\* C4: the output of row b is all zeros at every output step after the first
\* n_b, n_b being the row's computed length, and the encoder is run on the
\* first n_b steps of row b and on no other step.
C4_ZeroBeyondLength ==
    biLSTMEmbedder.pc = "returned" =>
        LET l == biLSTMEmbedder.locals
            y == biLSTMEmbedder.outputs
        IN  /\ \A b \in 1..BatchSize :
                  /\ \A t \in (l.lengths[b] + 1)..Len(y[b]) :
                        y[b][t] = Zeros(2 * l.hidden_size)
                  /\ PackedRow(biLSTMEmbedder.packed_input,
                               biLSTMEmbedder.original_perm[b])
                        = SubSeq(l.embedded[b], 1, l.lengths[b])
            /\ Len(biLSTMEmbedder.packed_input.data) = SumSeq(l.lengths)

\* A returned call on a row of one real step followed by a longer row, with a
\* different token: the first row's output has a second step, all zeros,
\* after a first step that is not.
C4_Witness ==
    /\ biLSTMEmbedder.pc = "returned"
    /\ biLSTMEmbedder.locals.padding_idx = 0
    /\ biLSTMEmbedder.locals.hidden_size = 2
    /\ Len(biLSTMEmbedder.locals.inputs) = 1
    /\ biLSTMEmbedder.locals.inputs[1].data = << <<1, 0>>, <<2, 2>> >>
    /\ biLSTMEmbedder.outputs[1][2] = <<0, 0, 0, 0>>
    /\ biLSTMEmbedder.outputs[1][1] # <<0, 0, 0, 0>>
    /\ biLSTMEmbedder.outputs[2][2] # <<0, 0, 0, 0>>

\* C5 as stated: when every row has at least one real time step the call
\* returns a tensor of shape (batch, time, 2 * hidden_size), with as many
\* time steps as the input.
C5_AsStated ==
    (biLSTMEmbedder.pc \in {"returned", "failed"}
        /\ \A b \in 1..BatchSize : \E t \in 1..TimeSteps : RealStep(b, t))
    => /\ biLSTMEmbedder.pc = "returned"
       /\ Len(biLSTMEmbedder.outputs) = BatchSize
       /\ \A b \in 1..BatchSize :
             /\ Len(biLSTMEmbedder.outputs[b]) = TimeSteps
             /\ \A t \in 1..TimeSteps :
                   Len(biLSTMEmbedder.outputs[b][t])
                      = 2 * biLSTMEmbedder.locals.hidden_size

\* The call on `inputs` with the module's settings ends as the call under
\* study did and returns `outputs`, whichever of the orders `sent_perms` the
\* sort gives rows of equal length.
EndsWith(inputs, sent_perms, outputs) ==
    \A sent_perm \in sent_perms :
        LET r == BiLSTMForward(inputs, biLSTMEmbedder.locals.padding_idx,
                               biLSTMEmbedder.locals.hidden_size, sent_perm)
        IN  /\ r.pc = biLSTMEmbedder.pc
            /\ r.error = biLSTMEmbedder.error
            /\ biLSTMEmbedder.pc = "returned" => r.outputs = outputs

\* C2: the call's output does not depend on the order the sort gives rows of
\* equal length, and for every permutation p of the batch rows the call on the
\* permuted batch ends as the call on the original batch does, its output
\* being the original output with its rows permuted by p.  (The second part
\* is stated for one sort order of the permuted batch; the first part, which
\* holds of the permuted batch's calls too, extends it to every order.)
C2_BatchOrderRestored ==
    biLSTMEmbedder.pc \in {"returned", "failed"} =>
        LET l == biLSTMEmbedder.locals
        IN  /\ EndsWith(l.inputs, SentPerms(l.inputs, l.padding_idx),
                        biLSTMEmbedder.outputs)
            /\ \A p \in Permutations(BatchSize) :
                  LET permuted == PermuteRows(l.inputs, p)
                  IN  EndsWith(permuted,
                               {CHOOSE sent_perm \in
                                   SentPerms(permuted, l.padding_idx) : TRUE},
                               IndexRows(biLSTMEmbedder.outputs, p))

\* A returned call on three rows, two of them of equal length and different
\* tokens, whose three output rows all differ.
C2_Witness ==
    /\ biLSTMEmbedder.pc = "returned"
    /\ BatchSize = 3
    /\ biLSTMEmbedder.locals.lengths = <<1, 2, 2>>
    /\ biLSTMEmbedder.locals.sent_perm = <<3, 2, 1>>
    /\ biLSTMEmbedder.outputs[1] # biLSTMEmbedder.outputs[2]
    /\ biLSTMEmbedder.outputs[2] # biLSTMEmbedder.outputs[3]
    /\ biLSTMEmbedder.outputs[1] # biLSTMEmbedder.outputs[3]
====
